---- MODULE Spec2Model ----
(* Model of the teaching-shop catalog: the Django models Product,          *)
(* ProductView and Review, the handwritten endpoints record_view and       *)
(* get_analytics, the router-generated ReviewViewSet, the admin site, and  *)
(* the React pages that call them.                                         *)
EXTENDS Integers, Sequences, FiniteSets, TLC

\* ---------------------------------------------------------------- bounds
MaxProducts == 2
MaxViews == 2
MaxReviews == 2
MaxRequests == 2
MaxTime == 1
MaxLen == 3

\* ------------------------------------------------------ program constants
MinRating == 1
MaxRating == 5
AuthorMaxLength == 100

CATEGORIES == <<"bavoirs", "doudous", "couvertures">>

\* Values a category string can take in a product handed to the page.
CategoryValues == {"bavoirs", "doudous", "couvertures", "autres"}

HTTP_NONE == 0
HTTP_OK == 200
HTTP_NOT_FOUND == 404
HTTP_SERVER_ERROR == 500

VARIABLES
  products,       \* rows of the Product table
  views,          \* rows of the ProductView table
  reviews,        \* rows of the Review table
  nextProductId,  \* AUTOINCREMENT sequence of Product
  nextViewId,     \* AUTOINCREMENT sequence of ProductView
  nextReviewId,   \* AUTOINCREMENT sequence of Review
  now,            \* the server clock read by auto_now_add
  requests,       \* the record_view requests, each with its handler's position
  ctxProducts,    \* ProductsContext: the product list the pages render
  analytics,      \* AnalyticsPage state
  reviewsState,   \* ReviewsSection state
  page            \* what the Products page has rendered

vars == <<products, views, reviews, nextProductId, nextViewId, nextReviewId,
          now, requests, ctxProducts, analytics, reviewsState, page>>

dbVars == <<products, views, reviews, nextProductId, nextViewId, nextReviewId>>
frontVars == <<ctxProducts, analytics, reviewsState, page>>

\* ---------------------------------------------------------------- helpers
Ids(rows) == {r.id : r \in rows}

MinId(rows) == CHOOSE i \in Ids(rows) : \A j \in Ids(rows) : i <= j

RowWithId(rows, i) == CHOOSE r \in rows : r.id = i

\* A queryset evaluated to a list: rows in primary-key order.
RECURSIVE ToList(_)
ToList(rows) ==
  IF rows = {} THEN <<>>
  ELSE LET r == RowWithId(rows, MinId(rows))
       IN <<r>> \o ToList(rows \ {r})

Range(s) == {s[i] : i \in 1..Len(s)}

\* Product.objects.get(id=product_id): the rows that match.
ProductLookup(ps, product_id) == {p \in ps : p.id = product_id}

\* The FOREIGN KEY constraint of a child row on Product.
ForeignKeyHolds(ps, product_id) == \E p \in ps : p.id = product_id

\* on_delete=CASCADE: the child rows that survive deleting product_id.
Cascade(rows, product_id) == {r \in rows : r.product_id # product_id}

\* Response bodies.  Every body is a record, so that any two compare.
NoBody == [detail |-> ""]
RecordedBody == [status |-> "recorded"]
NotFoundBody == [error |-> "Product not found"]
ServerErrorBody == [detail |-> "Server Error (500)"]

\* A request slot of the browser: no fetch pending.
NoRequest ==
  [pc |-> "idle", product_id |-> 0, status |-> HTTP_NONE, body |-> NoBody,
   row |-> 0]

\* ------------------------------------------------------------------- Init
Init ==
  /\ products = {}
  /\ views = {}
  /\ reviews = {}
  /\ nextProductId = 1
  /\ nextViewId = 1
  /\ nextReviewId = 1
  /\ now = 0
  /\ requests = [r \in 1..MaxRequests |-> NoRequest]
  /\ ctxProducts = <<>>
  /\ analytics = <<>>
  /\ reviewsState = <<>>
  /\ page = <<>>

\* ------------------------------------------------------------ environment
Tick ==
  /\ now < MaxTime
  /\ now' = now + 1
  /\ UNCHANGED <<dbVars, requests, frontVars>>

\* ------------------------------------------------------------------ admin
\* admin.site.register(Product): the add form.
AdminAddProduct(category) ==
  /\ nextProductId <= MaxProducts
  /\ products' = products \cup
       {[id |-> nextProductId, name |-> "produit", category |-> category]}
  /\ nextProductId' = nextProductId + 1
  /\ UNCHANGED <<views, reviews, nextViewId, nextReviewId, now, requests,
                 frontVars>>

\* admin.site.register(Product): the delete action, which cascades.
AdminDeleteProduct ==
  \E p \in products :
    /\ products' = products \ {p}
    /\ views' = Cascade(views, p.id)
    /\ reviews' = Cascade(reviews, p.id)
    /\ UNCHANGED <<nextProductId, nextViewId, nextReviewId, now, requests,
                   frontVars>>

\* ProductViewAdmin: the delete action on one ProductView row.
AdminDeleteProductView ==
  \E v \in views :
    /\ views' = views \ {v}
    /\ UNCHANGED <<products, reviews, nextProductId, nextViewId, nextReviewId,
                   now, requests, frontVars>>

\* ------------------------------------------------------------ record_view
\* HomePage onClick -> recordProductView(product.id): one fetch POST.
\* r is the first free request slot.
Click(r) ==
  \E i \in 1..Len(ctxProducts) :
    /\ requests[r].pc = "idle"
    /\ \A q \in 1..(r - 1) : requests[q].pc # "idle"
    /\ requests' = [requests EXCEPT
                      ![r] = [NoRequest EXCEPT !.pc = "sent",
                                               !.product_id = ctxProducts[i].id]]
    /\ UNCHANGED <<dbVars, now, frontVars>>

\* RecordViewGet with status=404 left out of the error Response.
RecordViewGet_DefaultStatus(r) ==
  /\ requests[r].pc = "sent"
  /\ IF ProductLookup(products, requests[r].product_id) = {}
     THEN requests' = [requests EXCEPT
                         ![r] = [@ EXCEPT !.pc = "done",
                                          !.status = HTTP_OK,
                                          !.body = NotFoundBody]]
     ELSE requests' = [requests EXCEPT ![r] = [@ EXCEPT !.pc = "got"]]
  /\ UNCHANGED <<dbVars, now, frontVars>>

\* record_view, up to Product.objects.get: DoesNotExist is answered with 404.
RecordViewGet(r) ==
  /\ requests[r].pc = "sent"
  /\ IF ProductLookup(products, requests[r].product_id) = {}
     THEN requests' = [requests EXCEPT
                         ![r] = [@ EXCEPT !.pc = "done",
                                          !.status = HTTP_NOT_FOUND,
                                          !.body = NotFoundBody]]
     ELSE requests' = [requests EXCEPT ![r] = [@ EXCEPT !.pc = "got"]]
  /\ UNCHANGED <<dbVars, now, frontVars>>

\* RecordViewCreate on a table without the foreign-key constraint.
RecordViewCreate_NoConstraint(r) ==
  /\ requests[r].pc = "got"
  /\ nextViewId <= MaxViews
  /\ views' = views \cup
       {[id |-> nextViewId, product_id |-> requests[r].product_id,
         viewed_at |-> now]}
  /\ nextViewId' = nextViewId + 1
  /\ requests' = [requests EXCEPT
                    ![r] = [@ EXCEPT !.pc = "done", !.status = HTTP_OK,
                                     !.body = RecordedBody,
                                     !.row = nextViewId]]
  /\ UNCHANGED <<products, reviews, nextProductId, nextReviewId, now,
                 frontVars>>

\* RecordViewCreate keeping one row per product (update_or_create).
RecordViewCreate_Upsert(r) ==
  /\ requests[r].pc = "got"
  /\ IF ForeignKeyHolds(products, requests[r].product_id)
     THEN /\ nextViewId <= MaxViews
          /\ views' = Cascade(views, requests[r].product_id) \cup
               {[id |-> nextViewId, product_id |-> requests[r].product_id,
                 viewed_at |-> now]}
          /\ nextViewId' = nextViewId + 1
          /\ requests' = [requests EXCEPT
                            ![r] = [@ EXCEPT !.pc = "done",
                                             !.status = HTTP_OK,
                                             !.body = RecordedBody,
                                             !.row = nextViewId]]
     ELSE /\ requests' = [requests EXCEPT
                            ![r] = [@ EXCEPT !.pc = "done",
                                             !.status = HTTP_SERVER_ERROR,
                                             !.body = ServerErrorBody]]
          /\ UNCHANGED <<views, nextViewId>>
  /\ UNCHANGED <<products, reviews, nextProductId, nextReviewId, now,
                 frontVars>>

\* RecordViewCreate numbering the new row by the current row count.
RecordViewCreate_CountId(r) ==
  /\ requests[r].pc = "got"
  /\ IF ForeignKeyHolds(products, requests[r].product_id)
     THEN /\ nextViewId <= MaxViews
          /\ views' = views \cup
               {[id |-> Cardinality(views) + 1,
                 product_id |-> requests[r].product_id, viewed_at |-> now]}
          /\ nextViewId' = nextViewId + 1
          /\ requests' = [requests EXCEPT
                            ![r] = [@ EXCEPT !.pc = "done",
                                             !.status = HTTP_OK,
                                             !.body = RecordedBody,
                                             !.row = Cardinality(views) + 1]]
     ELSE /\ requests' = [requests EXCEPT
                            ![r] = [@ EXCEPT !.pc = "done",
                                             !.status = HTTP_SERVER_ERROR,
                                             !.body = ServerErrorBody]]
          /\ UNCHANGED <<views, nextViewId>>
  /\ UNCHANGED <<products, reviews, nextProductId, nextReviewId, now,
                 frontVars>>

\* record_view, from ProductView.objects.create to the Response.  The INSERT
\* is subject to the foreign key; its IntegrityError is not caught.
RecordViewCreate(r) ==
  /\ requests[r].pc = "got"
  /\ IF ForeignKeyHolds(products, requests[r].product_id)
     THEN /\ nextViewId <= MaxViews
          /\ views' = views \cup
               {[id |-> nextViewId, product_id |-> requests[r].product_id,
                 viewed_at |-> now]}
          /\ nextViewId' = nextViewId + 1
          /\ requests' = [requests EXCEPT
                            ![r] = [@ EXCEPT !.pc = "done",
                                             !.status = HTTP_OK,
                                             !.body = RecordedBody,
                                             !.row = nextViewId]]
     ELSE /\ requests' = [requests EXCEPT
                            ![r] = [@ EXCEPT !.pc = "done",
                                             !.status = HTTP_SERVER_ERROR,
                                             !.body = ServerErrorBody]]
          /\ UNCHANGED <<views, nextViewId>>
  /\ UNCHANGED <<products, reviews, nextProductId, nextReviewId, now,
                 frontVars>>

\* recordProductView: the awaited fetch resolves; nothing is done with it.
Settle(r) ==
  /\ requests[r].pc = "done"
  /\ requests' = [requests EXCEPT ![r] = NoRequest]
  /\ UNCHANGED <<dbVars, now, frontVars>>

\* Reject with the POST sent again after a failure.
Reject_Retry(r) ==
  /\ requests[r].pc \in {"sent", "done"}
  /\ requests' = [requests EXCEPT
                    ![r] = [NoRequest EXCEPT
                              !.pc = "sent",
                              !.product_id = requests[r].product_id]]
  /\ UNCHANGED <<dbVars, now, frontVars>>

\* recordProductView: the fetch rejects (network failure); nothing handles it.
Reject(r) ==
  /\ requests[r].pc \in {"sent", "done"}
  /\ requests' = [requests EXCEPT ![r] = NoRequest]
  /\ UNCHANGED <<dbVars, now, frontVars>>

\* ---------------------------------------------------------- get_analytics
NULL == 0

\* LeftJoin as an INNER JOIN.
LeftJoin_Inner(ps, vs) ==
  {[product |-> pv[1], view_id |-> pv[2].id] :
      pv \in {qw \in ps \X vs : qw[2].product_id = qw[1].id}}

\* Product LEFT OUTER JOIN ProductView ON (ProductView.product_id = Product.id):
\* one row per matching pair, and one row with a NULL view for a product
\* without any.
LeftJoin(ps, vs) ==
  {[product |-> pv[1], view_id |-> pv[2].id] :
      pv \in {qw \in ps \X vs : qw[2].product_id = qw[1].id}}
  \cup
  {[product |-> p, view_id |-> NULL] :
      p \in {q \in ps : ~ \E v \in vs : v.product_id = q.id}}

\* Count as COUNT(*): the NULL row of a product without views is counted.
Count_Star(joined, p) == Cardinality({j \in joined : j.product = p})

\* COUNT(view.id) over one group of joined rows: NULLs are not counted.
Count(joined, p) ==
  Cardinality({j \in joined : j.product = p /\ j.view_id # NULL})

\* Product.objects.annotate(view_count=Count('views'))
\*        .values('id', 'name', 'view_count'), as a list.
get_analytics(ps, vs) ==
  LET joined == LeftJoin(ps, vs)
      groups == ToList({j.product : j \in joined})
  IN [i \in 1..Len(groups) |->
        [id |-> groups[i].id, name |-> groups[i].name,
         view_count |-> Count(joined, groups[i])]]

\* AnalyticsPage: fetchAnalytics().then(setAnalytics).
FetchAnalytics ==
  /\ analytics' = get_analytics(products, views)
  /\ UNCHANGED <<dbVars, now, requests, ctxProducts, reviewsState,
                 page>>

\* ---------------------------------------------------------------- reviews
RatingInputs == (MinRating - 1)..(MaxRating + 1)
AuthorInputs ==
  {"", "Ana",
   "AAAAAAAAAAAAAAAAAAAAAAAAAAAAAAAAAAAAAAAAAAAAAAAAAAAAAAAAAAAAAAAAAAAAAAAAAAAAAAAAAAAAAAAAAAAAAAAAAAAAA"}
CommentInputs == {"", "bien"}
ProductIdInputs == 1..(MaxProducts + 1)

\* The request bodies tried: every product and rating with a well-formed
\* author and comment, and every author and comment with one product and rating.
ReviewInputs ==
  [product : {1}, author : {"Ana"}, rating : RatingInputs, comment : {"bien"}]
  \cup
  [product : ProductIdInputs, author : {"Ana"}, rating : {MinRating},
   comment : {"bien"}]
  \cup
  [product : {1}, author : AuthorInputs, rating : {MinRating},
   comment : CommentInputs]

\* The request bodies tried where only the referenced product matters: every
\* product, with one rating in range and one out of range.
KeyInputs ==
  [product : ProductIdInputs, author : {"Ana"},
   rating : {MaxRating, MaxRating + 1}, comment : {"bien"}]

\* RatingValid without the MaxValueValidator.
RatingValid_NoMax(rating) == MinRating <= rating

\* MinValueValidator(1), MaxValueValidator(5) on Review.rating.
RatingValid(rating) == MinRating <= rating /\ rating <= MaxRating

\* Field validation of a Review, as run by ReviewSerializer.is_valid and by
\* the admin's ModelForm.
ReviewValid(ps, data) ==
  /\ ForeignKeyHolds(ps, data.product)
  /\ data.author # ""
  /\ Len(data.author) <= AuthorMaxLength
  /\ RatingValid(data.rating)
  /\ data.comment # ""

NewReview(id, data, t) ==
  [id |-> id, product_id |-> data.product, author |-> data.author,
   rating |-> data.rating, comment |-> data.comment, created_at |-> t]

\* DateTimeField to its JSON representation.
IsoFormat(t) == <<"iso-8601", t>>

\* ReviewSerializer with fields = '__all__'.
ReviewSerializer(row) ==
  [id |-> row.id, product |-> row.product_id, author |-> row.author,
   rating |-> row.rating, comment |-> row.comment,
   created_at |-> IsoFormat(row.created_at)]

\* ReviewList cut to a first page of one record.
ReviewList_FirstPage(rows) ==
  LET l == ToList(rows)
  IN [i \in 1..(IF Len(l) > 1 THEN 1 ELSE Len(l)) |-> ReviewSerializer(l[i])]

\* ReviewViewSet.list: GET /api/reviews/.
ReviewList(rows) ==
  LET l == ToList(rows) IN [i \in 1..Len(l) |-> ReviewSerializer(l[i])]

\* ReviewViewSet.create: POST /api/reviews/.  An invalid body is answered
\* with 400 and nothing is stored.
ReviewCreate(data) ==
  /\ IF ReviewValid(products, data)
     THEN /\ nextReviewId <= MaxReviews
          /\ reviews' = reviews \cup {NewReview(nextReviewId, data, now)}
          /\ nextReviewId' = nextReviewId + 1
     ELSE UNCHANGED <<reviews, nextReviewId>>
  /\ UNCHANGED <<products, views, nextProductId, nextViewId, now, requests,
                 frontVars>>

\* ReviewAdmin: the add form of the admin site.  An invalid form is shown
\* again with its errors and nothing is stored.
AdminAddReview(data) ==
  /\ IF ReviewValid(products, data)
     THEN /\ nextReviewId <= MaxReviews
          /\ reviews' = reviews \cup {NewReview(nextReviewId, data, now)}
          /\ nextReviewId' = nextReviewId + 1
     ELSE UNCHANGED <<reviews, nextReviewId>>
  /\ UNCHANGED <<products, views, nextProductId, nextViewId, now, requests,
                 frontVars>>

\* ReviewViewSet.update: PUT /api/reviews/<id>/.  404 for an unknown id, 400
\* for an invalid body.
ReviewUpdate(id, data) ==
  /\ IF (\E row \in reviews : row.id = id) /\ ReviewValid(products, data)
     THEN LET row == RowWithId(reviews, id)
          IN reviews' = (reviews \ {row}) \cup
                          {NewReview(id, data, row.created_at)}
     ELSE UNCHANGED reviews
  /\ UNCHANGED <<products, views, nextProductId, nextViewId, nextReviewId,
                 now, requests, frontVars>>

\* ReviewViewSet.destroy: DELETE /api/reviews/<id>/.  404 for an unknown id.
ReviewDestroy(id) ==
  /\ IF \E row \in reviews : row.id = id
     THEN reviews' = reviews \ {RowWithId(reviews, id)}
     ELSE UNCHANGED reviews
  /\ UNCHANGED <<products, views, nextProductId, nextViewId, nextReviewId,
                 now, requests, frontVars>>

\* ReviewAdmin: the delete action on one Review row.
AdminDeleteReview(id) ==
  /\ \E row \in reviews : row.id = id
  /\ reviews' = reviews \ {RowWithId(reviews, id)}
  /\ UNCHANGED <<products, views, nextProductId, nextViewId, nextReviewId,
                 now, requests, frontVars>>

\* ReviewsSection: fetchReviews().then(setReviews).
FetchReviews ==
  /\ reviewsState' = ReviewList(reviews)
  /\ UNCHANGED <<dbVars, now, requests, ctxProducts, analytics,
                 page>>

\* ---------------------------------------------------------- Products page
\* ProductsContext: the provider loads GET /api/products/ into the context.
FetchProducts ==
  /\ ctxProducts' = ToList(products)
  /\ UNCHANGED <<dbVars, now, requests, analytics, reviewsState,
                 page>>

\* CategorySection without the early return for an empty list.
CategorySection_NoGuard(category, ps) ==
  <<[category |-> category, cards |-> ps]>>

\* CategorySection: null for an empty list, else a heading and one card per
\* product.  A null element renders nothing.
CategorySection(category, ps) ==
  IF Len(ps) = 0 THEN <<>>
  ELSE <<[category |-> category, cards |-> ps]>>

RECURSIVE ProductsFrom(_, _)
ProductsFrom(i, ps) ==
  IF i > Len(CATEGORIES) THEN <<>>
  ELSE CategorySection(CATEGORIES[i],
                       SelectSeq(ps, LAMBDA p : p.category = CATEGORIES[i]))
       \o ProductsFrom(i + 1, ps)

\* Products(): CATEGORIES.map(category => <CategorySection ... />).
Products(ps) == ProductsFrom(1, ps)

RenderProducts ==
  /\ page' = Products(ctxProducts)
  /\ UNCHANGED <<dbVars, now, requests, ctxProducts, analytics,
                 reviewsState>>

\* ------------------------------------------------------- specifications
AddProduct == AdminAddProduct(CATEGORIES[1])

\* The view-recording path: clicks, the record_view handler, product
\* deletion by the admin.
NextViews ==
  \/ AddProduct
  \/ AdminDeleteProduct
  \/ FetchProducts
  \/ \E r \in 1..MaxRequests : Click(r)
  \/ \E r \in 1..MaxRequests : RecordViewGet(r)
  \/ \E r \in 1..MaxRequests : RecordViewCreate(r)
  \/ \E r \in 1..MaxRequests : Settle(r)
  \/ \E r \in 1..MaxRequests : Reject(r)

SpecViews == Init /\ [][NextViews]_vars

\* The analytics page over the view log.
NextAnalytics ==
  \/ AddProduct
  \/ AdminDeleteProduct
  \/ AdminDeleteProductView
  \/ FetchProducts
  \/ \E r \in 1..MaxRequests : Click(r)
  \/ \E r \in 1..MaxRequests : RecordViewGet(r)
  \/ \E r \in 1..MaxRequests : RecordViewCreate(r)
  \/ FetchAnalytics

SpecAnalytics == Init /\ [][NextAnalytics]_vars

\* The reviews resource.
NextReviews ==
  \/ Tick
  \/ AddProduct
  \/ AdminDeleteProduct
  \/ \E data \in ReviewInputs : AdminAddReview(data)
  \/ \E data \in ReviewInputs : ReviewCreate(data)
  \/ \E id \in 1..MaxReviews, data \in ReviewInputs : ReviewUpdate(id, data)
  \/ \E id \in 1..MaxReviews : ReviewDestroy(id)

SpecReviews == Init /\ [][NextReviews]_vars

\* The reviews list as the frontend reads it.
NextReviewList ==
  \/ AddProduct
  \/ AdminDeleteProduct
  \/ \E data \in KeyInputs : AdminAddReview(data)
  \/ \E data \in KeyInputs : ReviewCreate(data)
  \/ \E id \in 1..MaxReviews, data \in KeyInputs : ReviewUpdate(id, data)
  \/ \E id \in 1..MaxReviews : ReviewDestroy(id)
  \/ FetchReviews

SpecReviewList == Init /\ [][NextReviewList]_vars

\* Every operation that writes to the database, with one record_view
\* request in flight at a time.
NextData ==
  \/ AddProduct
  \/ AdminDeleteProduct
  \/ AdminDeleteProductView
  \/ \E data \in KeyInputs : AdminAddReview(data)
  \/ \E id \in 1..MaxReviews : AdminDeleteReview(id)
  \/ FetchProducts
  \/ Click(1)
  \/ RecordViewGet(1)
  \/ RecordViewCreate(1)
  \/ Settle(1)
  \/ \E data \in KeyInputs : ReviewCreate(data)
  \/ \E id \in 1..MaxReviews, data \in KeyInputs : ReviewUpdate(id, data)
  \/ \E id \in 1..MaxReviews : ReviewDestroy(id)

SpecData == Init /\ [][NextData]_vars

\* The Products page applied to every product list within the bounds.
ProductLists ==
  UNION {{l \in [1..n -> [id : 1..MaxLen, name : {"produit"},
                          category : CategoryValues]] :
            \A i, j \in 1..n : i # j => l[i].id # l[j].id} : n \in 0..MaxLen}

InitPage ==
  /\ products = {}
  /\ views = {}
  /\ reviews = {}
  /\ nextProductId = 1
  /\ nextViewId = 1
  /\ nextReviewId = 1
  /\ now = 0
  /\ requests = [r \in 1..MaxRequests |-> NoRequest]
  /\ ctxProducts \in ProductLists
  /\ analytics = <<>>
  /\ reviewsState = <<>>
  /\ page = <<>>

NextPage == RenderProducts

SpecPage == InitPage /\ [][NextPage]_vars

\* ------------------------------------------------------------- properties
Slots == 1..MaxRequests

ViewsOf(vs, product_id) == {v \in vs : v.product_id = product_id}

\* The step in which the handler of request r runs Product.objects.get.
LookupStep(r) ==
  /\ requests[r].pc = "sent"
  /\ requests'[r].pc \in {"got", "done"}

\* The step in which the handler of request r runs ProductView.objects.create.
CreateStep(r) ==
  /\ requests[r].pc = "got"
  /\ requests'[r].pc = "done"

\* C1: record_view called with an id for which no Product exists answers 404
\* with the body {"error": "Product not found"} and leaves the ProductView
\* rows and the Product rows exactly as they were.
C1_NotFound ==
  [][\A r \in Slots :
       (LookupStep(r) /\ ~ \E p \in products : p.id = requests[r].product_id)
       => /\ requests'[r].pc = "done"
          /\ requests'[r].status = 404
          /\ requests'[r].body = [error |-> "Product not found"]
          /\ views' = views
          /\ products' = products]_vars

C1_Witness ==
  \E r \in Slots :
    /\ requests[r].pc = "done"
    /\ requests[r].status = 404
    /\ views # {}

\* C2: whatever views were recorded, every entry get_analytics returns has a
\* view_count equal to the number of ProductView rows referencing its product.
C2_ViewCount ==
  [][FetchAnalytics =>
       \A i \in 1..Len(analytics') :
         analytics'[i].view_count =
           Cardinality(ViewsOf(views, analytics'[i].id))]_vars

C2_Witness ==
  /\ \E i \in 1..Len(analytics) : analytics[i].view_count = 2
  /\ \A i \in 1..Len(analytics) :
       analytics[i].view_count = Cardinality(ViewsOf(views, analytics[i].id))

\* C3: every stored Review has an integer rating between 1 and 5, whether the
\* admin form or POST /api/reviews/ (or a later PUT) wrote it.
C3_RatingRange ==
  \A row \in reviews : row.rating \in Int /\ 1 <= row.rating /\ row.rating <= 5

C3_Witness ==
  \E a, b \in reviews : a.rating = 1 /\ b.rating = 5

ReviewFields == {"id", "product", "author", "rating", "comment", "created_at"}

\* C4: GET /api/reviews/ returns exactly one record per stored Review, each
\* with the fields id, product, author, rating, comment, created_at.
C4_ListAll ==
  [][FetchReviews =>
       /\ Len(reviewsState') = Cardinality(reviews)
       /\ \A row \in reviews :
            Cardinality({i \in 1..Len(reviewsState') :
                           reviewsState'[i].id = row.id}) = 1
       /\ \A i \in 1..Len(reviewsState') :
            /\ DOMAIN reviewsState'[i] = ReviewFields
            /\ \E row \in reviews :
                 /\ reviewsState'[i].id = row.id
                 /\ reviewsState'[i].product = row.product_id
                 /\ reviewsState'[i].author = row.author
                 /\ reviewsState'[i].rating = row.rating
                 /\ reviewsState'[i].comment = row.comment]_vars

C4_Witness ==
  /\ Len(reviewsState) = 2
  /\ Cardinality(reviews) = 2
  /\ \A row \in reviews :
       \E i \in 1..Len(reviewsState) : reviewsState[i].id = row.id

References(ps, row) == \E p \in ps : p.id = row.product_id

\* C5: every Review and every ProductView references a Product that exists,
\* and deleting a Product removes every Review and ProductView referencing
\* it, also when the deletion falls between the existence check and the row
\* creation of a record_view request for that product.
C5_Cascade ==
  /\ [](\A row \in views \cup reviews : References(products, row))
  /\ [][\A p \in products :
          p \notin products' =>
            \A row \in views' \cup reviews' : row.product_id # p.id]_vars

C5_Witness ==
  /\ requests[1].pc = "done"
  /\ requests[1].status = 500
  /\ nextViewId > 1
  /\ nextReviewId > 1
  /\ products = {}

\* A step of the admin site that deletes rows.
AdminDeleteStep ==
  \/ AdminDeleteProduct
  \/ AdminDeleteProductView
  \/ \E id \in 1..MaxReviews : AdminDeleteReview(id)

C7_FireAndForget ==
  [][\A r \in Slots :
       /\ (requests'[r].pc = "sent" /\ requests[r] # requests'[r])
          => /\ requests[r].pc = "idle"
             /\ \E i \in 1..Len(ctxProducts) :
                  requests'[r].product_id = ctxProducts[i].id
             /\ \A q \in Slots \ {r} : requests'[q] = requests[q]
       /\ (/\ requests[r].pc \in {"sent", "done"}
           /\ requests'[r].pc \notin {"sent", "got", "done"})
          => /\ requests'[r] = NoRequest
             /\ \A q \in Slots \ {r} : requests'[q] = requests[q]
             /\ <<ctxProducts, analytics, reviewsState, page>>' =
                  <<ctxProducts, analytics, reviewsState, page>>]_vars

C7_Witness ==
  /\ requests[1].pc = "idle"
  /\ requests[2].pc = "done"
  /\ requests[2].status = 404

\* What the creation step of request r does when it records a view: exactly
\* one new row, for the request's product, and every other row as it was.
RecordsOneView(r) ==
  /\ requests'[r].status = 200
  /\ requests'[r].body = [status |-> "recorded"]
  /\ \E v \in views' \ views :
       /\ views' = views \cup {v}
       /\ v.product_id = requests[r].product_id
       /\ v.id = requests'[r].row
  /\ Cardinality(ViewsOf(views', requests[r].product_id)) =
       Cardinality(ViewsOf(views, requests[r].product_id)) + 1
  /\ \A p \in products :
       p.id # requests[r].product_id => ViewsOf(views', p.id) = ViewsOf(views, p.id)

\* C8 as stated: each record_view call for an existing product returns
\* {"status": "recorded"} and adds exactly one ProductView row for it.
C8_Original ==
  [][\A r \in Slots : CreateStep(r) => RecordsOneView(r)]_vars

\* C8 as amended: a record_view call whose product still exists when the row
\* is inserted returns {"status": "recorded"} and adds exactly one row for it,
\* leaving the other rows alone; a call whose product was deleted after the
\* existence check fails with a server error and adds nothing; and requests
\* handled concurrently that returned "recorded" each have a row of their own.
C8_Amended ==
  /\ [][\A r \in Slots :
          CreateStep(r) =>
            IF \E p \in products : p.id = requests[r].product_id
            THEN RecordsOneView(r)
            ELSE requests'[r].status = 500 /\ views' = views]_vars
  /\ [](\A r, q \in Slots :
          (/\ r # q
           /\ requests[r].pc = "done" /\ requests[r].status = 200
           /\ requests[q].pc = "done" /\ requests[q].status = 200)
          => requests[r].row # requests[q].row)

C8_Witness ==
  /\ requests[1].pc = "done" /\ requests[1].status = 200
  /\ requests[2].pc = "done" /\ requests[2].status = 200
  /\ requests[1].product_id = requests[2].product_id
  /\ Cardinality(ViewsOf(views, requests[1].product_id)) = 2

\* C9: get_analytics returns exactly one entry {id, name, view_count} for
\* every existing Product, with view_count 0 for a product never viewed, and
\* no entry for an id that is not an existing Product.
C9_EveryProduct ==
  [][FetchAnalytics =>
       /\ \A p \in products :
            /\ Cardinality({i \in 1..Len(analytics') :
                              analytics'[i].id = p.id}) = 1
            /\ \A i \in 1..Len(analytics') :
                 analytics'[i].id = p.id =>
                   /\ DOMAIN analytics'[i] = {"id", "name", "view_count"}
                   /\ analytics'[i].name = p.name
                   /\ (ViewsOf(views, p.id) = {} => analytics'[i].view_count = 0)
       /\ \A i \in 1..Len(analytics') :
            \E p \in products : p.id = analytics'[i].id]_vars

C9_Witness ==
  /\ Len(analytics) = 1
  /\ analytics[1].id = 2
  /\ analytics[1].view_count = 0
  /\ Ids(products) = {2}
  /\ views = {}

InCategories(c) == \E k \in 1..Len(CATEGORIES) : CATEGORIES[k] = c

IndexOf(c) == CHOOSE k \in 1..Len(CATEGORIES) : CATEGORIES[k] = c

\* The places of the rendered page, <<section, card>>, that show product p.
Places(pg, p) ==
  {sc \in (1..Len(pg)) \X (1..MaxLen) :
     sc[2] <= Len(pg[sc[1]].cards) /\ pg[sc[1]].cards[sc[2]] = p}

PositionIn(ps, p) == CHOOSE i \in 1..Len(ps) : ps[i] = p

\* C10: the Products page partitions the list by category: a product whose
\* category is in CATEGORIES is rendered in exactly one section, that of its
\* category; sections follow the order of CATEGORIES and cards the order of
\* the list; a category without products renders no section; a product whose
\* category is outside CATEGORIES is rendered nowhere.
C10_Partition ==
  [][RenderProducts =>
       /\ \A i \in 1..Len(ctxProducts) :
            IF InCategories(ctxProducts[i].category)
            THEN /\ Cardinality(Places(page', ctxProducts[i])) = 1
                 /\ \A sc \in Places(page', ctxProducts[i]) :
                      page'[sc[1]].category = ctxProducts[i].category
            ELSE Places(page', ctxProducts[i]) = {}
       /\ \A s \in 1..Len(page') :
            /\ Len(page'[s].cards) > 0
            /\ InCategories(page'[s].category)
            /\ \A a, b \in 1..Len(page'[s].cards) :
                 a < b => PositionIn(ctxProducts, page'[s].cards[a])
                            < PositionIn(ctxProducts, page'[s].cards[b])
       /\ \A s, t \in 1..Len(page') :
            s < t => IndexOf(page'[s].category) < IndexOf(page'[t].category)]_vars

C10_Witness ==
  /\ Len(page) = 2
  /\ Len(ctxProducts) = 3
  /\ \E i \in 1..Len(ctxProducts) : ctxProducts[i].category = "autres"
  /\ page[1].category = "bavoirs"
  /\ page[2].category = "couvertures"
====
